---------------------------- MODULE Spec2Model ----------------------------
(***************************************************************************)
(* Configuration loader of the Autonomous Market Evolution Engine          *)
(* (src/config.py): the settings class EvolutionEngineConfig, the global   *)
(* slot `config`, and the two entry points initialize_config() and         *)
(* get_config().                                                           *)
(*                                                                         *)
(* Floats are modelled as exact decimals with four fractional digits plus  *)
(* the IEEE specials nan, +inf and -inf; binary rounding is not modelled.  *)
(* Scalar environment values are sequences of characters and are parsed    *)
(* digit by digit; JSON-valued variables are given by their decoded shape. *)
(***************************************************************************)
EXTENDS Integers, Sequences, FiniteSets, TLC

VARIABLES config, nextId, pc, op, inits, used, logs, ret

vars == <<config, nextId, pc, op, inits, used, logs, ret>>

\* Execution contexts that may call into the module.
Contexts == {"c1", "c2"}

\* Number of EvolutionEngineConfig instances a behaviour may construct.
MaxInstances == 2

-----------------------------------------------------------------------------
(* Floats *)

Scale == 10 * 10 * 10 * 10

Dec(whole, frac) == [k |-> "fin", v |-> whole * Scale + frac]
NaN == [k |-> "nan", v |-> 0]
PosInf == [k |-> "inf", v |-> 1]
NegInf == [k |-> "inf", v |-> -1]

\* IEEE comparisons: every ordered comparison with nan is false.
FLe(a, b) ==
    /\ a.k # "nan"
    /\ b.k # "nan"
    /\ CASE a.k = "fin" /\ b.k = "fin" -> a.v <= b.v
         [] a.k = "inf" /\ b.k = "fin" -> a.v < 0
         [] a.k = "fin" /\ b.k = "inf" -> b.v > 0
         [] OTHER -> a.v <= b.v

FGt(a, b) ==
    /\ a.k # "nan"
    /\ b.k # "nan"
    /\ ~FLe(a, b)

FAdd(a, b) ==
    CASE a.k = "nan" \/ b.k = "nan" -> NaN
      [] a.k = "inf" /\ b.k = "inf" -> IF a.v = b.v THEN a ELSE NaN
      [] a.k = "inf" -> a
      [] b.k = "inf" -> b
      [] OTHER -> [k |-> "fin", v |-> a.v + b.v]

FNeg(a) == IF a.k = "nan" THEN a ELSE [k |-> a.k, v |-> 0 - a.v]

FSub(a, b) == FAdd(a, FNeg(b))

FAbs(a) == IF a.k # "nan" /\ a.v < 0 THEN FNeg(a) ELSE a

-----------------------------------------------------------------------------
(* Text to number coercions (the decimal subset of Python's int() and      *)
(* float(): optional sign, digits, optional fraction, nan, inf).           *)

DigitChars == <<"0", "1", "2", "3", "4", "5", "6", "7", "8", "9">>

IsDigit(c) == \E i \in 1..Len(DigitChars) : DigitChars[i] = c

DigitVal(c) == (CHOOSE i \in 1..Len(DigitChars) : DigitChars[i] = c) - 1

AllDigits(s) == \A i \in 1..Len(s) : IsDigit(s[i])

RECURSIVE DigitsVal(_)
DigitsVal(s) ==
    IF s = <<>> THEN 0
    ELSE 10 * DigitsVal(SubSeq(s, 1, Len(s) - 1)) + DigitVal(s[Len(s)])

HasSign(s) == Len(s) > 0 /\ s[1] \in {"+", "-"}

Unsigned(s) == IF HasSign(s) THEN Tail(s) ELSE s

SignOf(s) == IF Len(s) > 0 /\ s[1] = "-" THEN -1 ELSE 1

Failed == [ok |-> FALSE]

ParseInt(s) ==
    LET body == Unsigned(s)
    IN  IF Len(body) > 0 /\ AllDigits(body)
        THEN [ok |-> TRUE, val |-> SignOf(s) * DigitsVal(body)]
        ELSE Failed

\* Fraction digits beyond the fourth are dropped.
FracVal(f) ==
    LET padded == SubSeq(f \o <<"0", "0", "0", "0">>, 1, 4)
    IN  DigitsVal(padded)

ParseFloat(s) ==
    LET body == Unsigned(s)
        dots == {i \in 1..Len(body) : body[i] = "."}
    IN  CASE body = <<"n", "a", "n">> -> [ok |-> TRUE, val |-> NaN]
          [] body = <<"i", "n", "f">> ->
                [ok |-> TRUE, val |-> [k |-> "inf", v |-> SignOf(s)]]
          [] dots = {} ->
                IF Len(body) > 0 /\ AllDigits(body)
                THEN [ok |-> TRUE,
                      val |-> [k |-> "fin", v |-> SignOf(s) * DigitsVal(body) * Scale]]
                ELSE Failed
          [] Cardinality(dots) = 1 ->
                LET d == CHOOSE i \in dots : TRUE
                    whole == SubSeq(body, 1, d - 1)
                    frac == SubSeq(body, d + 1, Len(body))
                IN  IF Len(whole) + Len(frac) > 0 /\ AllDigits(whole) /\ AllDigits(frac)
                    THEN [ok |-> TRUE,
                          val |-> [k |-> "fin",
                                   v |-> SignOf(s) * (DigitsVal(whole) * Scale + FracVal(frac))]]
                    ELSE Failed
          [] OTHER -> Failed

-----------------------------------------------------------------------------
(* Message text: a sequence of tokens, each a literal piece of the source   *)
(* text, an interpolated string, an integer count or an interpolated float. *)

Lit(s) == [t |-> "lit", s |-> s, f |-> Dec(0, 0)]
Str(s) == [t |-> "str", s |-> s, f |-> Dec(0, 0)]
Flt(f) == [t |-> "flt", s |-> "", f |-> f]
Cnt(n) == [t |-> "cnt", s |-> "", f |-> Dec(n, 0)]

\* sub occurs in msg as a contiguous run of tokens.
Contains(msg, sub) ==
    \E i \in 0..(Len(msg) - Len(sub)) : SubSeq(msg, i + 1, i + Len(sub)) = sub

Entry(level, msg) == [level |-> level, msg |-> msg]

-----------------------------------------------------------------------------
(* The settings class *)

RequiredKeys ==
    <<"FIREBASE_PROJECT_ID", "FIREBASE_PRIVATE_KEY",
      "FIREBASE_CLIENT_EMAIL", "FIREBASE_DATABASE_URL">>

FieldOrder ==
    RequiredKeys \o
    <<"TOURNAMENT_DAILY_SCHEDULE", "MAX_CONCURRENT_AGENTS", "MIN_SURVIVAL_SCORE",
      "DATA_SOURCES", "MAX_DRAWDOWN_PERCENT", "COMPLEXITY_TAX_RATE", "SCORE_WEIGHTS">>

Range(seq) == {seq[i] : i \in 1..Len(seq)}

Keys == Range(FieldOrder)

ComplexKeys == <<"DATA_SOURCES", "SCORE_WEIGHTS">>

DefaultSchedule == "22:00"
DefaultMaxAgents == 100
DefaultMinSurvival == Dec(0, 0)
DefaultDataSources == <<"binance", "kraken", "coinbase">>
DefaultDrawdown == Dec(20, 0)
DefaultTaxRate == Dec(0, 10)
DefaultScoreWeights ==
    [m \in {"profitability", "sharpe_ratio", "max_drawdown", "win_rate"} |->
        CASE m = "profitability" -> Dec(0, 4000)
          [] m = "sharpe_ratio" -> Dec(0, 2500)
          [] m = "max_drawdown" -> Dec(0, 2000)
          [] m = "win_rate" -> Dec(0, 1500)]

Ok(v) == [ok |-> TRUE, val |-> v]
Err(msg) == [ok |-> FALSE, msg |-> msg]

\* A raw value of a source: unset, or the text (scalar fields) or JSON
\* document (complex fields) bound to the variable.
Unset == [present |-> FALSE]
Text(s) == [present |-> TRUE, text |-> s]
JsonMalformed == [present |-> TRUE, json |-> "malformed"]
JsonObject(o) == [present |-> TRUE, json |-> "object", obj |-> o]
JsonArray(a) == [present |-> TRUE, json |-> "array", arr |-> a]
JNum(f) == [j |-> "num", f |-> f]
JStr(s) == [j |-> "str", s |-> s]

\* Values of the process environment take priority over those of the .env
\* file, which is read only when it exists.
Lookup(src, key) ==
    IF src.environ[key].present THEN src.environ[key]
    ELSE IF src.envFile /\ src.dotenv[key].present THEN src.dotenv[key]
    ELSE Unset

RequiredStr(raw) ==
    IF raw.present THEN Ok(raw.text)
    ELSE Err(<<Lit("field required (type=value_error.missing)")>>)

OptionalStr(raw, default) == IF raw.present THEN Ok(raw.text) ELSE Ok(default)

IntField(raw, default) ==
    IF ~raw.present THEN Ok(default)
    ELSE LET p == ParseInt(raw.text)
         IN  IF p.ok THEN Ok(p.val)
             ELSE Err(<<Lit("value is not a valid integer (type=type_error.integer)")>>)

FloatField(raw, default) ==
    IF ~raw.present THEN Ok(default)
    ELSE LET p == ParseFloat(raw.text)
         IN  IF p.ok THEN Ok(p.val)
             ELSE Err(<<Lit("value is not a valid float (type=type_error.float)")>>)

ListField(raw, default) ==
    IF ~raw.present THEN Ok(default)
    ELSE IF raw.json = "array" THEN Ok(raw.arr)
    ELSE Err(<<Lit("value is not a valid list (type=type_error.list)")>>)

validate_drawdown(v) ==
    IF FLe(v, Dec(0, 0)) \/ FGt(v, Dec(100, 0))
    THEN Err(<<Lit("MAX_DRAWDOWN_PERCENT must be between 0 and 100"),
               Lit(" (type=value_error)")>>)
    ELSE Ok(v)

\* The validator runs on supplied values only, never on the default.
DrawdownField(raw) ==
    LET c == FloatField(raw, DefaultDrawdown)
    IN  IF raw.present /\ c.ok THEN validate_drawdown(c.val) ELSE c

RECURSIVE SumOver(_, _)
SumOver(w, ks) ==
    IF ks = {} THEN Dec(0, 0)
    ELSE LET m == CHOOSE m \in ks : TRUE
         IN  FAdd(SumOver(w, ks \ {m}), w[m])

SumValues(w) == SumOver(w, DOMAIN w)

validate_weights(v) ==
    LET total == SumValues(v)
    IN  IF FGt(FAbs(FSub(total, Dec(1, 0))), Dec(0, 10))
        THEN Err(<<Lit("SCORE_WEIGHTS must sum to 1.0, got "), Flt(total),
                   Lit(" (type=value_error)")>>)
        ELSE Ok(v)

JsonFloat(jv) == IF jv.j = "num" THEN [ok |-> TRUE, val |-> jv.f] ELSE ParseFloat(jv.s)

WeightsField(raw) ==
    IF ~raw.present THEN Ok(DefaultScoreWeights)
    ELSE IF raw.json # "object"
    THEN Err(<<Lit("value is not a valid dict (type=type_error.dict)")>>)
    ELSE IF \E m \in DOMAIN raw.obj : ~JsonFloat(raw.obj[m]).ok
    THEN Err(<<Lit("value is not a valid float (type=type_error.float)")>>)
    ELSE validate_weights([m \in DOMAIN raw.obj |-> JsonFloat(raw.obj[m]).val])

FieldResult(src, key) ==
    LET raw == Lookup(src, key)
    IN  CASE key \in Range(RequiredKeys) -> RequiredStr(raw)
          [] key = "TOURNAMENT_DAILY_SCHEDULE" -> OptionalStr(raw, DefaultSchedule)
          [] key = "MAX_CONCURRENT_AGENTS" -> IntField(raw, DefaultMaxAgents)
          [] key = "MIN_SURVIVAL_SCORE" -> FloatField(raw, DefaultMinSurvival)
          [] key = "DATA_SOURCES" -> ListField(raw, DefaultDataSources)
          [] key = "MAX_DRAWDOWN_PERCENT" -> DrawdownField(raw)
          [] key = "COMPLEXITY_TAX_RATE" -> FloatField(raw, DefaultTaxRate)
          [] key = "SCORE_WEIGHTS" -> WeightsField(raw)

RECURSIVE ErrorLines(_, _)
ErrorLines(src, ks) ==
    IF ks = <<>> THEN <<>>
    ELSE LET r == FieldResult(src, Head(ks))
         IN  (IF r.ok THEN <<>> ELSE <<Lit(Head(ks))>> \o r.msg)
             \o ErrorLines(src, Tail(ks))

FailedFields(src) == SelectSeq(FieldOrder, LAMBDA key : ~FieldResult(src, key).ok)

\* Complex variables whose text is not JSON stop the load before validation.
Undecodable(src) ==
    SelectSeq(ComplexKeys,
              LAMBDA key : Lookup(src, key).present /\ Lookup(src, key).json = "malformed")

\* EvolutionEngineConfig(): the fields of the instance, or the exception.
Build(src) ==
    IF Undecodable(src) # <<>>
    THEN [ok |-> FALSE, exc |-> "SettingsError",
          msg |-> <<Lit("error parsing env var "), Lit(Head(Undecodable(src)))>>]
    ELSE IF FailedFields(src) # <<>>
    THEN [ok |-> FALSE, exc |-> "ValidationError",
          msg |-> <<Cnt(Len(FailedFields(src))),
                    Lit(" validation error(s) for EvolutionEngineConfig")>>
                  \o ErrorLines(src, FieldOrder)]
    ELSE [ok |-> TRUE,
          fields |-> [key \in Keys |-> FieldResult(src, key).val]]

-----------------------------------------------------------------------------
(* Inputs: what the process environment and the .env file may hold when    *)
(* the settings are read.                                                  *)

WeightKeys == {"profitability", "sharpe_ratio", "max_drawdown", "win_rate"}

\* Four weights of 0.25 with `first` in place of the first of them.
Weights(first) ==
    JsonObject([m \in WeightKeys |->
                   IF m = "profitability" THEN first ELSE JNum(Dec(0, 2500))])

Values(key) ==
    CASE key = "FIREBASE_PROJECT_ID" -> {Text(""), Text("proj-a"), Text("proj-b")}
      [] key = "FIREBASE_PRIVATE_KEY" -> {Text(""), Text("key-1")}
      [] key = "FIREBASE_CLIENT_EMAIL" -> {Text(""), Text("svc@proj")}
      [] key = "FIREBASE_DATABASE_URL" -> {Text(""), Text("https://db")}
      [] key = "TOURNAMENT_DAILY_SCHEDULE" -> {Text("09:30")}
      [] key = "MAX_CONCURRENT_AGENTS" -> {Text(<<"8">>), Text(<<"m", "a", "n", "y">>)}
      [] key = "MIN_SURVIVAL_SCORE" -> {Text(<<"0", ".", "5">>), Text(<<"l", "o", "w">>)}
      [] key = "DATA_SOURCES" -> {JsonArray(<<"binance">>), JsonMalformed}
      [] key = "MAX_DRAWDOWN_PERCENT" ->
            {Text(<<"-", "1">>), Text(<<"0">>), Text(<<"0", ".", "0", "1">>),
             Text(<<"1", "0", "0">>), Text(<<"1", "0", "0", ".", "0", "1">>),
             Text(<<"n", "a", "n">>), Text(<<"i", "n", "f">>), Text(<<"a", "b", "c">>)}
      [] key = "COMPLEXITY_TAX_RATE" -> {Text(<<"0", ".", "0", "0", "2">>)}
      [] key = "SCORE_WEIGHTS" ->
            {Weights(JNum(Dec(0, 2500))), Weights(JNum(Dec(0, 2510))),
             Weights(JNum(Dec(0, 2511))), Weights(JNum(Dec(0, 2490))),
             Weights(JNum(Dec(0, 2489))), Weights(JNum(NaN)),
             Weights(JStr(<<"h", "i", "g", "h">>)),
             JsonObject([m \in {"alpha"} |-> JNum(Dec(1, 0))]),
             JsonMalformed}

AllUnset == [key \in Keys |-> Unset]

\* The four credentials set, every optional variable left out.
BaseVars ==
    [key \in Keys |->
        CASE key = "FIREBASE_PROJECT_ID" -> Text("proj-a")
          [] key = "FIREBASE_PRIVATE_KEY" -> Text("key-1")
          [] key = "FIREBASE_CLIENT_EMAIL" -> Text("svc@proj")
          [] key = "FIREBASE_DATABASE_URL" -> Text("https://db")
          [] OTHER -> Unset]

Source(envFile, dotenv, environ) ==
    [envFile |-> envFile, dotenv |-> dotenv, environ |-> environ]

\* One variable of the .env file differs from the base.
FileSources ==
    UNION {{Source(TRUE, [BaseVars EXCEPT ![key] = v], AllUnset) :
                v \in Values(key) \cup {Unset}} : key \in Keys}

\* One variable of the process environment overrides the .env file.
OverrideSources ==
    UNION {{Source(TRUE, BaseVars, [AllUnset EXCEPT ![key] = v]) :
                v \in Values(key)} : key \in Keys}

\* Everything comes from the process environment; the .env file is empty
\* or does not exist.
EnvironSources ==
    {Source(f, AllUnset, e) : f \in BOOLEAN, e \in {BaseVars, AllUnset}}

Sources == FileSources \cup OverrideSources \cup EnvironSources

\* The inputs of the interleaved runs: two valid sets that differ, an
\* invalid one, and a missing .env file.
RaceSources ==
    {Source(TRUE, BaseVars, AllUnset),
     Source(TRUE, [BaseVars EXCEPT !["FIREBASE_PROJECT_ID"] = Text("proj-b")], AllUnset),
     Source(TRUE, [BaseVars EXCEPT !["MAX_DRAWDOWN_PERCENT"] = Text(<<"0">>)], AllUnset),
     Source(FALSE, AllUnset, BaseVars)}

-----------------------------------------------------------------------------
(* initialize_config() and get_config() *)

None == [none |-> TRUE]

\* A constructed settings object; id tells one construction from another.
Instance(id, fields) == [none |-> FALSE, id |-> id, fields |-> fields]

NoResult == [kind |-> "none"]
Returned(rec) == [kind |-> "return", rec |-> rec]
Raised(e) == [kind |-> "raise", exc |-> e.exc, msg |-> e.msg]

NoSource == [read |-> FALSE]
Read(src) == [read |-> TRUE, src |-> src]

MissingFileLogs ==
    <<Entry("ERROR", <<Lit("Missing .env file. Required environment variables:")>>),
      Entry("ERROR", <<Lit("FIREBASE_PROJECT_ID"), Lit(", "), Lit("FIREBASE_PRIVATE_KEY"),
                       Lit(", "), Lit("FIREBASE_CLIENT_EMAIL")>>)>>

MissingFileError ==
    [exc |-> "FileNotFoundError",
     msg |-> <<Lit(".env file not found. Create from .env.template with Firebase credentials")>>]

\* "FIREBASE" in str(e): of the texts an exception can carry, only the names
\* of the credential fields hold the upper-case word.
MentionsFIREBASE(msg) ==
    \E i \in 1..Len(msg) : msg[i].t = "lit" /\ msg[i].s \in Range(RequiredKeys)

\* The wrapping error without the text of its cause.
WrapConfigErrorBare(msg) == <<Lit("Configuration error")>>

WrapConfigError(msg) == <<Lit("Configuration error: ")>> \o msg

\* The except clause of initialize_config().
HandlerLogs(msg) ==
    <<Entry("CRITICAL", <<Lit("Configuration initialization failed: ")>> \o msg)>>
    \o (IF MentionsFIREBASE(msg)
        THEN <<Entry("ERROR",
                     <<Lit("Firebase credentials missing. Request access via Telegram emergency contact.")>>)>>
        ELSE <<>>)

\* The exception raised inside the try block, if any.
Cause(src) ==
    IF ~src.envFile THEN MissingFileError
    ELSE [exc |-> Build(src).exc, msg |-> Build(src).msg]

\* The try block up to the assignment of the global, and the except clause.
Attempt(src) ==
    IF src.envFile /\ Build(src).ok
    THEN [ok |-> TRUE, fields |-> Build(src).fields]
    ELSE [ok |-> FALSE,
          logs |-> (IF src.envFile THEN <<>> ELSE MissingFileLogs)
                   \o HandlerLogs(Cause(src).msg),
          raised |-> [exc |-> "ValueError", msg |-> WrapConfigError(Cause(src).msg)]]

\* The success entry also showing the private key.
SuccessLogsWithKey(rec) ==
    <<Entry("INFO", <<Lit("Configuration loaded successfully for project: "),
                      Str(rec.fields["FIREBASE_PROJECT_ID"]),
                      Str(rec.fields["FIREBASE_PRIVATE_KEY"])>>)>>

SuccessLogs(rec) ==
    <<Entry("INFO", <<Lit("Configuration loaded successfully for project: "),
                      Str(rec.fields["FIREBASE_PROJECT_ID"])>>),
      Entry("DEBUG", <<Lit("Tournament schedule: "),
                       Str(rec.fields["TOURNAMENT_DAILY_SCHEDULE"])>>),
      Entry("DEBUG", <<Lit("Data sources: ")>>
                     \o [i \in 1..Len(rec.fields["DATA_SOURCES"]) |->
                            Str(rec.fields["DATA_SOURCES"][i])])>>

\* The accessor's error without the text of its cause.
AutoInitErrorBare(msg) == <<Lit("Configuration not initialized and auto-init failed")>>

AutoInitError(msg) == <<Lit("Configuration not initialized and auto-init failed: ")>> \o msg

\* What the caller of operation o sees when initialize_config() raises e.
Propagate(o, e) ==
    IF o = "get_config"
    THEN [exc |-> "RuntimeError", msg |-> AutoInitError(e.msg)]
    ELSE e

\* The accessor initializing on every call.
SlotAlwaysEmpty(c) == TRUE

\* The accessor's test the wrong way round.
SlotCheckInverted(c) == c # None

SlotIsEmpty(c) == c = None

InFlight == {u \in Contexts : pc[u] \notin {"idle", "done"}}

CanCall == nextId + Cardinality(InFlight) < MaxInstances

Enter(t, o, at, n) ==
    /\ pc' = [pc EXCEPT ![t] = at]
    /\ op' = [op EXCEPT ![t] = o]
    /\ inits' = [inits EXCEPT ![t] = n]
    /\ used' = [used EXCEPT ![t] = NoSource]
    /\ logs' = [logs EXCEPT ![t] = <<>>]
    /\ ret' = [ret EXCEPT ![t] = NoResult]

\* A caller invokes initialize_config().
CallInitialize(t) ==
    /\ pc[t] = "idle"
    /\ CanCall
    /\ Enter(t, "initialize_config", "init_build", 1)
    /\ UNCHANGED <<config, nextId>>

\* A caller invokes get_config().
CallGet(t) ==
    /\ pc[t] = "idle"
    /\ CanCall
    /\ Enter(t, "get_config", "get_check", 0)
    /\ UNCHANGED <<config, nextId>>

\* get_config(): the slot is empty, initialize_config() is called.
GetCheckEmpty(t) ==
    /\ pc[t] = "get_check"
    /\ SlotIsEmpty(config)
    /\ pc' = [pc EXCEPT ![t] = "init_build"]
    /\ inits' = [inits EXCEPT ![t] = @ + 1]
    /\ UNCHANGED <<config, nextId, op, used, logs, ret>>

\* get_config(): the slot is populated and is returned.
GetCheckPopulated(t) ==
    /\ pc[t] = "get_check"
    /\ ~SlotIsEmpty(config)
    /\ pc' = [pc EXCEPT ![t] = "done"]
    /\ ret' = [ret EXCEPT ![t] = Returned(config)]
    /\ UNCHANGED <<config, nextId, op, inits, used, logs>>

\* initialize_config(): the file exists and the settings validate; the new
\* instance is bound to the global.
InitBuildOk(t, inputs) ==
    /\ pc[t] = "init_build"
    /\ \E src \in inputs :
          /\ Attempt(src).ok
          /\ config' = Instance(nextId + 1, Attempt(src).fields)
          /\ used' = [used EXCEPT ![t] = Read(src)]
    /\ nextId' = nextId + 1
    /\ pc' = [pc EXCEPT ![t] = "init_finish"]
    /\ UNCHANGED <<op, inits, logs, ret>>

\* initialize_config(): the file is missing or the settings are rejected;
\* the except clause logs and raises, and get_config() wraps what it catches.
InitBuildFail(t, inputs) ==
    /\ pc[t] = "init_build"
    /\ \E src \in inputs :
          /\ ~Attempt(src).ok
          /\ used' = [used EXCEPT ![t] = Read(src)]
          /\ logs' = [logs EXCEPT ![t] = @ \o Attempt(src).logs]
          /\ ret' = [ret EXCEPT ![t] = Raised(Propagate(op[t], Attempt(src).raised))]
    /\ pc' = [pc EXCEPT ![t] = "done"]
    /\ UNCHANGED <<config, nextId, op, inits>>

\* initialize_config(): the success entries are logged from the global and
\* the global is returned.
InitFinish(t) ==
    /\ pc[t] = "init_finish"
    /\ logs' = [logs EXCEPT ![t] = @ \o SuccessLogs(config)]
    /\ ret' = [ret EXCEPT ![t] = Returned(config)]
    /\ pc' = [pc EXCEPT ![t] = "done"]
    /\ UNCHANGED <<config, nextId, op, inits, used>>

\* The caller takes the result; the context may call again.
Release(t) ==
    /\ pc[t] = "done"
    /\ Enter(t, "none", "idle", 0)
    /\ UNCHANGED <<config, nextId>>

Init ==
    /\ config = None
    /\ nextId = 0
    /\ pc = [t \in Contexts |-> "idle"]
    /\ op = [t \in Contexts |-> "none"]
    /\ inits = [t \in Contexts |-> 0]
    /\ used = [t \in Contexts |-> NoSource]
    /\ logs = [t \in Contexts |-> <<>>]
    /\ ret = [t \in Contexts |-> NoResult]

\* No call overlaps another.
Alone(t) == \A u \in Contexts \ {t} : pc[u] = "idle"

Next ==
    \E t \in Contexts :
        \/ Alone(t) /\ CallInitialize(t)
        \/ Alone(t) /\ CallGet(t)
        \/ Alone(t) /\ GetCheckEmpty(t)
        \/ Alone(t) /\ GetCheckPopulated(t)
        \/ Alone(t) /\ InitBuildOk(t, Sources)
        \/ Alone(t) /\ InitBuildFail(t, Sources)
        \/ Alone(t) /\ InitFinish(t)
        \/ Alone(t) /\ Release(t)

Spec == Init /\ [][Next]_vars

\* Calls from several contexts interleave at every access to the global.
NextConcurrent ==
    \E t \in Contexts :
        \/ CallInitialize(t)
        \/ CallGet(t)
        \/ GetCheckEmpty(t)
        \/ GetCheckPopulated(t)
        \/ InitBuildOk(t, RaceSources)
        \/ InitBuildFail(t, RaceSources)
        \/ InitFinish(t)
        \/ Release(t)

SpecConcurrent == Init /\ [][NextConcurrent]_vars

-----------------------------------------------------------------------------
(* Properties *)

\* The source read by the call of context t validates: the file exists and
\* the settings class accepts the values.
Valid(src) == src.envFile /\ Build(src).ok

Finished(t, o) == pc[t] = "done" /\ op[t] = o

\* C1: a get_config() call that finds the slot populated returns the very
\* record of the slot, in one step, without calling initialize_config(),
\* without reading any source and without touching the slot; so consecutive
\* get_config() calls return the same record.
C1_GetReturnsSlot ==
    [][\A t \in Contexts :
          (pc[t] = "get_check" /\ pc'[t] # "get_check" /\ config # None)
          => /\ pc'[t] = "done"
             /\ ret'[t] = Returned(config)
             /\ config' = config
             /\ nextId' = nextId
             /\ inits'[t] = 0
             /\ used'[t] = NoSource
             /\ logs'[t] = <<>>]_vars

C1_Witness ==
    \E t \in Contexts :
        /\ Finished(t, "get_config")
        /\ inits[t] = 0
        /\ config # None
        /\ ret[t] = Returned(config)

\* C2 (as claimed): once the slot holds a record, no call empties the slot
\* or replaces the record.
C2_ReadyIsTerminal == [][config # None => config' = config]_vars

\* C2 (amended): once the slot holds a record no call empties it, and the
\* record is replaced only by a successful explicit initialize_config()
\* call; every such call binds a newly constructed instance in place of the
\* record held; get_config() and a failing initialize_config() leave the
\* record in place.
C2_ReplacedOnlyByInitialize ==
    [][config # None =>
          /\ \A t \in Contexts :
                (pc[t] = "init_build" /\ pc'[t] = "init_finish")
                => config' # config /\ config'.id = nextId + 1
          /\ config' # None
          /\ config' # config =>
                \E t \in Contexts :
                    /\ op[t] = "initialize_config"
                    /\ pc[t] = "init_build"
                    /\ pc'[t] = "init_finish"
                    /\ used'[t].read
                    /\ Valid(used'[t].src)
                    /\ config'.id = nextId + 1]_vars

C2_Witness ==
    \E t \in Contexts :
        /\ Finished(t, "initialize_config")
        /\ ret[t].kind = "raise"
        /\ config # None

C4_SingleAttempt ==
    \A t \in Contexts :
        /\ op[t] = "get_config" => inits[t] <= 1
        /\ (op[t] = "get_config" /\ pc[t] \in {"init_build", "init_finish"})
              => inits[t] = 1
        /\ (Finished(t, "get_config") /\ inits[t] = 0)
              => ~used[t].read
        /\ (Finished(t, "get_config") /\ used[t].read)
              => /\ inits[t] = 1
                 /\ IF Valid(used[t].src)
                    THEN /\ ret[t] = Returned(config)
                         /\ config # None
                         /\ config.fields = Build(used[t].src).fields
                    ELSE /\ ret[t].kind = "raise"
                         /\ ret[t].exc = "RuntimeError"
                         /\ Contains(ret[t].msg, Cause(used[t].src).msg)
                         /\ config = None

C4_Witness ==
    \E t \in Contexts :
        /\ Finished(t, "get_config")
        /\ inits[t] = 1
        /\ ret[t].kind = "raise"
        /\ ret[t].exc = "RuntimeError"
        /\ config = None

\* C5 (as claimed): of the contexts that call get_config() while the slot
\* is empty at most one is inside initialize_config(), and any two of them
\* return the same record.
C5_AutoInitMutex ==
    /\ Cardinality({t \in Contexts :
                       op[t] = "get_config" /\ pc[t] \in {"init_build", "init_finish"}}) <= 1
    /\ \A t, u \in Contexts :
          (/\ Finished(t, "get_config") /\ inits[t] = 1 /\ ret[t].kind = "return"
           /\ Finished(u, "get_config") /\ inits[u] = 1 /\ ret[u].kind = "return")
          => ret[t].rec = ret[u].rec

InRange(v) == FGt(v, Dec(0, 0)) /\ FLe(v, Dec(100, 0))

\* The one variable that differs from the base set, in the .env file.
OnlyInFile(src, key) ==
    /\ src.envFile
    /\ src.environ = AllUnset
    /\ src.dotenv = [BaseVars EXCEPT ![key] = src.dotenv[key]]
    /\ src.dotenv[key].present

\* C6 (as claimed): with every other field valid, initialize_config() fails
\* for a drawdown v with v <= 0 or v > 100 and succeeds for 0 < v <= 100;
\* and every record in the slot has 0 < MAX_DRAWDOWN_PERCENT <= 100.
C6_DrawdownInRange ==
    /\ config # None => InRange(config.fields["MAX_DRAWDOWN_PERCENT"])
    /\ \A t \in Contexts :
          (/\ Finished(t, "initialize_config")
           /\ used[t].read
           /\ OnlyInFile(used[t].src, "MAX_DRAWDOWN_PERCENT")
           /\ ParseFloat(used[t].src.dotenv["MAX_DRAWDOWN_PERCENT"].text).ok)
          => LET v == ParseFloat(used[t].src.dotenv["MAX_DRAWDOWN_PERCENT"].text).val
             IN  /\ (FLe(v, Dec(0, 0)) \/ FGt(v, Dec(100, 0))) => ret[t].kind = "raise"
                 /\ InRange(v) => ret[t].kind = "return"

WithinTolerance(total) == FLe(FAbs(FSub(total, Dec(1, 0))), Dec(0, 10))

\* The floats of a JSON object all of whose values coerce.
Coerced(obj) == [m \in DOMAIN obj |-> JsonFloat(obj[m]).val]

\* C7 (as claimed): with every other field valid, initialize_config() fails
\* for weights whose sum s has |s - 1.0| > 0.001 and succeeds for
\* |s - 1.0| <= 0.001; and every record in the slot has exactly the four
\* fixed weight keys, with weights that sum to 1.0 within 0.001.
C7_WeightsSumToOne ==
    /\ config # None =>
          /\ DOMAIN config.fields["SCORE_WEIGHTS"] = WeightKeys
          /\ WithinTolerance(SumValues(config.fields["SCORE_WEIGHTS"]))
    /\ \A t \in Contexts :
          (/\ Finished(t, "initialize_config")
           /\ used[t].read
           /\ OnlyInFile(used[t].src, "SCORE_WEIGHTS")
           /\ used[t].src.dotenv["SCORE_WEIGHTS"].json = "object"
           /\ \A m \in DOMAIN used[t].src.dotenv["SCORE_WEIGHTS"].obj :
                  JsonFloat(used[t].src.dotenv["SCORE_WEIGHTS"].obj[m]).ok)
          => LET s == SumValues(Coerced(used[t].src.dotenv["SCORE_WEIGHTS"].obj))
             IN  /\ FGt(FAbs(FSub(s, Dec(1, 0))), Dec(0, 10)) => ret[t].kind = "raise"
                 /\ WithinTolerance(s) => ret[t].kind = "return"

\* C8 (as claimed): every record in the slot, and every record returned,
\* has the four credential fields non-empty; initialize_config() fails when
\* a credential is left out of every source or is the empty string, and
\* succeeds with the four credentials set and every optional field left out.
C8_CredentialsNonEmpty ==
    /\ config # None =>
          \A key \in Range(RequiredKeys) : config.fields[key] # ""
    /\ \A t \in Contexts :
          /\ ret[t].kind = "return" =>
                \A key \in Range(RequiredKeys) : ret[t].rec.fields[key] # ""
          /\ (Finished(t, "initialize_config") /\ used[t].read)
                => /\ (\E key \in Range(RequiredKeys) :
                          Lookup(used[t].src, key) \in {Unset, Text("")})
                      => ret[t].kind = "raise"
                   /\ used[t].src = Source(TRUE, BaseVars, AllUnset)
                      => ret[t].kind = "return"

Named(t, name) ==
    \E i \in 1..Len(logs[t]) :
        \E j \in 1..Len(logs[t][i].msg) : logs[t][i].msg[j] = Lit(name)

\* C9 (as claimed): without a .env file initialize_config() fails to its
\* caller with a FileNotFoundError, and its diagnostic names the four
\* required credential variables.
C9_MissingFileError ==
    \A t \in Contexts :
        (Finished(t, "initialize_config") /\ used[t].read /\ ~used[t].src.envFile)
        => /\ ret[t].kind = "raise"
           /\ ret[t].exc = "FileNotFoundError"
           /\ \A key \in Range(RequiredKeys) : Named(t, key)

SecretValues == {"", "key-1", "key-2"}

\* src with the private key, wherever it is set, given the value k.
WithSecret(src, k) ==
    LET put(m) == IF m["FIREBASE_PRIVATE_KEY"].present
                  THEN [m EXCEPT !["FIREBASE_PRIVATE_KEY"] = Text(k)]
                  ELSE m
    IN  Source(src.envFile, put(src.dotenv), put(src.environ))

\* The log entries of an initialize_config() run that reads src.
RunLogs(src) ==
    IF Attempt(src).ok
    THEN SuccessLogs(Instance(0, Attempt(src).fields))
    ELSE Attempt(src).logs

\* C10: the log entries of a finished call are those of the same call run
\* with any other value of FIREBASE_PRIVATE_KEY; a call that reads no source
\* logs nothing.
C10_LogsIgnorePrivateKey ==
    \A t \in Contexts :
        pc[t] = "done" =>
            IF used[t].read
            THEN \A k \in SecretValues : logs[t] = RunLogs(WithSecret(used[t].src, k))
            ELSE logs[t] = <<>>

C10_Witness ==
    \E t \in Contexts :
        /\ pc[t] = "done"
        /\ used[t].read
        /\ Lookup(used[t].src, "FIREBASE_PRIVATE_KEY") = Text("key-1")
        /\ ret[t].kind = "return"
        /\ Len(logs[t]) = 3

=============================================================================
